---- MODULE Spec2Model ----
(***************************************************************************)
(* The DeviceLoans notify service: the HTTP handler productUpdatedHttp     *)
(* (src/functions/product-updated-http.ts, the variant at lines 251-458),  *)
(* and the Email Gateway sendEmail (src/infra/email/acs-email.ts).         *)
(*                                                                         *)
(* JavaScript strings are sequences of one-character strings; a JSON value *)
(* is a record of one fixed shape tagged with its typeof.                  *)
(***************************************************************************)
EXTENDS Integers, Sequences, FiniteSets, TLC

(***************************************************************************)
(* Bounds of the model.                                                    *)
(***************************************************************************)
\* invocations of productUpdatedHttp that may run concurrently (SpecHandler)
NumInvocations == 2
\* sendEmail calls that may run concurrently (SpecGateway)
NumCalls == 2
\* invocations, and sendEmail calls, of the combined specification Spec
NumBoth == 1
\* longest id / name / description tried against escapeHtml (SpecEscape)
MaxLen == 3

(***************************************************************************)
(* Strings.                                                                *)
(***************************************************************************)
DigitChars == <<"0", "1", "2", "3", "4", "5", "6", "7", "8", "9">>

IsDigit(c) == \E d \in 1..10 : DigitChars[d] = c

DigitVal(c) == (CHOOSE d \in 1..10 : DigitChars[d] = c) - 1

AllDigits(s) == \A k \in 1..Len(s) : IsDigit(s[k])

\* String.prototype.includes for a one-character needle
Includes(s, c) == \E k \in 1..Len(s) : s[k] = c

IsSpace(c) == c = " "

RECURSIVE TrimStart(_)
TrimStart(s) ==
  IF s # <<>> /\ IsSpace(Head(s)) THEN TrimStart(Tail(s)) ELSE s

RECURSIVE TrimEnd(_)
TrimEnd(s) ==
  IF s # <<>> /\ IsSpace(s[Len(s)]) THEN TrimEnd(SubSeq(s, 1, Len(s) - 1)) ELSE s

\* String.prototype.trim
Trim(s) == TrimEnd(TrimStart(s))

\* Array.prototype.join(',') over an array of strings
RECURSIVE Join(_)
Join(a) ==
  IF a = <<>> THEN <<>>
  ELSE IF Len(a) = 1 THEN a[1]
  ELSE a[1] \o <<",">> \o Join(Tail(a))

\* s.replace(/c/g, ent): every occurrence of the character c becomes ent
RECURSIVE ReplaceAll(_, _, _)
ReplaceAll(s, c, ent) ==
  IF s = <<>> THEN <<>>
  ELSE (IF Head(s) = c THEN ent ELSE <<Head(s)>>) \o ReplaceAll(Tail(s), c, ent)

(***************************************************************************)
(* JavaScript numbers: NaN, or sign, integer part and the digits of the    *)
(* fraction without trailing zeros (no exponents, no Infinity: the model's *)
(* inputs are plain decimal numerals).                                     *)
(***************************************************************************)
NaN == [nan |-> TRUE, neg |-> FALSE, int |-> 0, frac |-> <<>>]

Num(neg, int, frac) == [nan |-> FALSE, neg |-> neg, int |-> int, frac |-> frac]

RECURSIVE DigitsToNat(_)
DigitsToNat(s) ==
  IF s = <<>> THEN 0
  ELSE 10 * DigitsToNat(SubSeq(s, 1, Len(s) - 1)) + DigitVal(s[Len(s)])

RECURSIVE NatToDigits(_)
NatToDigits(n) ==
  IF n < 10 THEN <<DigitChars[n + 1]>>
  ELSE NatToDigits(n \div 10) \o <<DigitChars[(n % 10) + 1]>>

RECURSIVE StripZeros(_)
StripZeros(s) ==
  IF s # <<>> /\ s[Len(s)] = "0" THEN StripZeros(SubSeq(s, 1, Len(s) - 1)) ELSE s

\* index of the first "." of s, or Len(s) + 1
RECURSIVE DotIndex(_)
DotIndex(s) ==
  IF s = <<>> \/ Head(s) = "." THEN 1 ELSE 1 + DotIndex(Tail(s))

\* an unsigned StrDecimalLiteral: digits, digits.digits, digits. or .digits
UnsignedToNumber(neg, u) ==
  LET d == DotIndex(u)
      ip == SubSeq(u, 1, d - 1)
      fp == SubSeq(u, d + 1, Len(u))
  IN  IF AllDigits(ip) /\ AllDigits(fp) /\ (ip # <<>> \/ fp # <<>>)
      THEN Num(neg, DigitsToNat(ip), StripZeros(fp))
      ELSE NaN

\* Number(s) of a string: white space is trimmed, the empty string is 0
StringToNumber(s) ==
  LET t == Trim(s) IN
    IF t = <<>> THEN Num(FALSE, 0, <<>>)
    ELSE IF Head(t) = "-" THEN UnsignedToNumber(TRUE, Tail(t))
    ELSE IF Head(t) = "+" THEN UnsignedToNumber(FALSE, Tail(t))
    ELSE UnsignedToNumber(FALSE, t)

\* String(n) of a number
NumberToString(n) ==
  IF n.nan THEN <<"N", "a", "N">>
  ELSE (IF n.neg /\ (n.int # 0 \/ n.frac # <<>>) THEN <<"-">> ELSE <<>>)
       \o NatToDigits(n.int)
       \o (IF n.frac = <<>> THEN <<>> ELSE <<".">> \o n.frac)

\* Number.isInteger(n)
NumberIsInteger(n) == ~n.nan /\ n.frac = <<>>

\* n >= 0 (false of NaN, true of -0)
NumberGeqZero(n) == ~n.nan /\ (~n.neg \/ (n.int = 0 /\ n.frac = <<>>))

(***************************************************************************)
(* JSON values, tagged with their typeof ("null" and "array" kept apart    *)
(* from "object"); arrays hold strings, and objects are plain ones, with   *)
(* no toString or valueOf member of their own.                             *)
(***************************************************************************)
JUndef == [t |-> "undefined", s |-> <<>>, n |-> NaN, b |-> FALSE, a |-> <<>>]

JNull == [t |-> "null", s |-> <<>>, n |-> NaN, b |-> FALSE, a |-> <<>>]

JStr(s) == [t |-> "string", s |-> s, n |-> NaN, b |-> FALSE, a |-> <<>>]

JNum(n) == [t |-> "number", s |-> <<>>, n |-> n, b |-> FALSE, a |-> <<>>]

JBool(b) == [t |-> "boolean", s |-> <<>>, n |-> NaN, b |-> b, a |-> <<>>]

JArr(a) == [t |-> "array", s |-> <<>>, n |-> NaN, b |-> FALSE, a |-> a]

JObj == [t |-> "object", s |-> <<>>, n |-> NaN, b |-> FALSE, a |-> <<>>]

\* String(x)
ToJsString(x) ==
  CASE x.t = "string" -> x.s
    [] x.t = "number" -> NumberToString(x.n)
    [] x.t = "boolean" ->
         IF x.b THEN <<"t", "r", "u", "e">> ELSE <<"f", "a", "l", "s", "e">>
    [] x.t = "null" -> <<"n", "u", "l", "l">>
    [] x.t = "undefined" -> <<"u", "n", "d", "e", "f", "i", "n", "e", "d">>
    [] x.t = "array" -> Join(x.a)
    [] x.t = "object" ->
         <<"[", "o", "b", "j", "e", "c", "t", " ", "O", "b", "j", "e", "c", "t", "]">>

\* Number(x)
ToJsNumber(x) ==
  CASE x.t = "string" -> StringToNumber(x.s)
    [] x.t = "number" -> x.n
    [] x.t = "boolean" -> IF x.b THEN Num(FALSE, 1, <<>>) ELSE Num(FALSE, 0, <<>>)
    [] x.t = "null" -> Num(FALSE, 0, <<>>)
    [] x.t = "undefined" -> NaN
    [] x.t = "array" -> StringToNumber(Join(x.a))
    [] x.t = "object" -> NaN

\* x ?? d
Nullish(x, d) == IF x.t \in {"undefined", "null"} THEN d ELSE x

(***************************************************************************)
(* The process environment and the exceptions of the run.                  *)
(***************************************************************************)
EnvNames == {"ACS_CONNECTION_STRING", "EMAIL_FROM"}

\* process.env[name] of a variable that is not set
Unset == "(unset)"

ValidConn == "endpoint=https://acs.example/;accesskey=k"

BadConn == "not-a-connection-string"

Sender == "DoNotReply@example.org"

EnvValues(name) ==
  IF name = "ACS_CONNECTION_STRING" THEN {Unset, "", ValidConn, BadConn}
  ELSE {Unset, Sender}

\* the message of a thrown value that carries none
NoMessage == "(no message)"

NoExc == [thrown |-> FALSE, message |-> NoMessage]

Exc(m) == [thrown |-> TRUE, message |-> m]

\* what beginSend and pollUntilDone may throw: an Error, or a value without message
ProviderExceptions == {Exc("Request failed"), Exc(NoMessage)}

\* new EmailClient(conn) throws on a connection string it cannot parse
ConstructorThrows(conn) == conn # ValidConn

ConstructorException == Exc("Invalid connection string")

mustGetEnv(e, name) ==
  IF e[name] = Unset \/ e[name] = ""
  THEN [ok |-> FALSE, v |-> Unset, exc |-> Exc(name \o " is not set")]
  ELSE [ok |-> TRUE, v |-> e[name], exc |-> NoExc]

(***************************************************************************)
(* The handler's pure helpers.                                             *)
(***************************************************************************)
isNonNegativeInt(x) ==
  x.t = "number" /\ NumberIsInteger(x.n) /\ NumberGeqZero(x.n)

IsoDate == <<"2", "0", "2", "4", "-", "0", "1", "-", "0", "1", "T",
             "0", "0", ":", "0", "0", ":", "0", "0", "Z">>

DateOnly == <<"2", "0", "2", "4", "-", "0", "1", "-", "0", "1">>

\* !Number.isNaN(new Date(s).getTime()), for the strings the model's bodies yield:
\* an ISO date-time, an ISO date and a bare month number parse, the rest do not
DateParses(s) == s \in {IsoDate, DateOnly, <<"5">>}

isIsoDateString(x) ==
  IF x.t # "string" THEN FALSE
  ELSE DateParses(x.s) /\ Includes(x.s, "T")

asStringStrict(x) ==
  IF x.t = "string" THEN x.s ELSE <<>>

asString(x) ==
  IF x.t = "string" THEN x.s ELSE ToJsString(Nullish(x, JStr(<<>>)))

escapeHtmlAmpLast(s) ==
  ReplaceAll(
    ReplaceAll(
      ReplaceAll(
        ReplaceAll(
          ReplaceAll(s, "<", <<"&", "l", "t", ";">>),
          ">", <<"&", "g", "t", ";">>),
        "\"", <<"&", "q", "u", "o", "t", ";">>),
      "'", <<"&", "#", "3", "9", ";">>),
    "&", <<"&", "a", "m", "p", ";">>)

escapeHtml(s) ==
  ReplaceAll(
    ReplaceAll(
      ReplaceAll(
        ReplaceAll(
          ReplaceAll(s, "&", <<"&", "a", "m", "p", ";">>),
          "<", <<"&", "l", "t", ";">>),
        ">", <<"&", "g", "t", ";">>),
      "\"", <<"&", "q", "u", "o", "t", ";">>),
    "'", <<"&", "#", "3", "9", ";">>)

(***************************************************************************)
(* Requests.  A request's body either fails to parse, or parses to a JSON  *)
(* value: an object with the six fields (an absent one is undefined), null *)
(* or a value without properties of these names.                           *)
(***************************************************************************)
FieldNames == {"id", "name", "pricePence", "description", "updatedAt", "recipientEmail"}

Request(parses, top, f) == [parses |-> parses, top |-> top, f |-> f]

\* b.<name> of b = (bodyUnknown ?? {})
Field(req, name) == IF req.top = "object" THEN req.f[name] ELSE JUndef

NoPayload ==
  [id |-> <<>>, name |-> <<>>, pricePence |-> JUndef, description |-> JUndef,
   updatedAt |-> <<>>, recipientEmail |-> <<>>]

Coerce(req) ==
  [id |-> asString(Field(req, "id")),
   name |-> asString(Field(req, "name")),
   pricePence |->
     IF Field(req, "pricePence").t = "number" THEN Field(req, "pricePence")
     ELSE JNum(ToJsNumber(Field(req, "pricePence"))),
   description |->
     IF Field(req, "description").t = "string" THEN Field(req, "description")
     ELSE JUndef,
   updatedAt |-> asString(Field(req, "updatedAt")),
   recipientEmail |-> asString(Field(req, "recipientEmail"))]

E_Json == "Body must be valid JSON"
E_Id == "id is required"
E_Name == "name is required"
E_Price == "pricePence must be a non-negative integer"
E_Email == "recipientEmail must be a valid email"
E_Date == "updatedAt must be an ISO 8601 string (Date.toISOString)"

\* if (cond) errors.push(msg)
PushIf(errors, cond, msg) == IF cond THEN Append(errors, msg) ELSE errors

ValidateFirstOnly(p) ==
  IF Trim(p.id) = <<>> THEN <<E_Id>>
  ELSE IF Trim(p.name) = <<>> THEN <<E_Name>>
  ELSE IF ~isNonNegativeInt(p.pricePence) THEN <<E_Price>>
  ELSE IF ~Includes(p.recipientEmail, "@") THEN <<E_Email>>
  ELSE IF ~isIsoDateString(JStr(p.updatedAt)) THEN <<E_Date>>
  ELSE <<>>

Validate(p) ==
  LET e1 == PushIf(<<>>, Trim(p.id) = <<>>, E_Id)
      e2 == PushIf(e1, Trim(p.name) = <<>>, E_Name)
      e3 == PushIf(e2, ~isNonNegativeInt(p.pricePence), E_Price)
      e4 == PushIf(e3, ~Includes(p.recipientEmail, "@"), E_Email)
      e5 == PushIf(e4, ~isIsoDateString(JStr(p.updatedAt)), E_Date)
  IN  e5

(***************************************************************************)
(* The message handed to beginSend.  The literal chunks of the template    *)
(* strings are single tokens (their line breaks and indentation left out); *)
(* the interpolated values are spliced in character by character.          *)
(***************************************************************************)
NoMsg == [sender |-> Unset, to |-> <<>>, subject |-> <<>>, plainText |-> <<>>, html |-> <<>>]

\* payload.description ?? '-'
DescriptionOrDash(p) == Nullish(p.description, JStr(<<"-">>)).s

Subject(p) == <<"Update: ">> \o p.name

PlainText(p) ==
  <<"Device update received\n\nID: ">> \o p.id
  \o <<"\nName: ">> \o p.name
  \o <<"\nDescription: ">> \o DescriptionOrDash(p)
  \o <<"\nUpdated At: ">> \o p.updatedAt
  \o <<"\n\n- DeviceLoans Notify Service">>

HtmlOf(id, name, description, updatedAt) ==
  <<"<h2>Device update received</h2><p><strong>ID:</strong> ">> \o id
  \o <<"</p><p><strong>Name:</strong> ">> \o name
  \o <<"</p><p><strong>Description:</strong> ">> \o description
  \o <<"</p><p><strong>Updated At:</strong> ">> \o updatedAt
  \o <<"</p><hr/><p style=\"color:#666\">DeviceLoans Notify Service</p>">>

Html(p) ==
  HtmlOf(escapeHtml(p.id), escapeHtml(p.name), escapeHtml(DescriptionOrDash(p)),
         escapeHtml(p.updatedAt))

Message(emailFrom, p) ==
  [sender |-> emailFrom, to |-> p.recipientEmail, subject |-> Subject(p),
   plainText |-> PlainText(p), html |-> Html(p)]

(***************************************************************************)
(* The provider's terminal results and the handler's responses.            *)
(***************************************************************************)
UpperChars == <<"A", "B", "C", "D", "E", "F", "G", "H", "I", "J", "K", "L", "M",
                "N", "O", "P", "Q", "R", "S", "T", "U", "V", "W", "X", "Y", "Z">>

LowerChars == <<"a", "b", "c", "d", "e", "f", "g", "h", "i", "j", "k", "l", "m",
                "n", "o", "p", "q", "r", "s", "t", "u", "v", "w", "x", "y", "z">>

LowerChar(c) ==
  IF \E k \in 1..26 : UpperChars[k] = c
  THEN LowerChars[CHOOSE k \in 1..26 : UpperChars[k] = c]
  ELSE c

\* String.prototype.toLowerCase
ToLowerCase(s) == [k \in 1..Len(s) |-> LowerChar(s[k])]

S_Succeeded == <<"S", "u", "c", "c", "e", "e", "d", "e", "d">>
S_succeeded == <<"s", "u", "c", "c", "e", "e", "d", "e", "d">>
S_Failed == <<"F", "a", "i", "l", "e", "d">>
S_Canceled == <<"C", "a", "n", "c", "e", "l", "e", "d">>

Op1 == JStr(<<"o", "p", "1">>)
Op2 == JStr(<<"o", "p", "2">>)

\* what pollUntilDone resolves to; an absent property is undefined
Result(defined, status, id, operationId, error) ==
  [defined |-> defined, status |-> status, id |-> id,
   operationId |-> operationId, error |-> error]

NoResult == Result(FALSE, JUndef, JUndef, JUndef, JUndef)

\* a few results, for the specifications with several processes
CoreResults ==
  { Result(TRUE, JStr(S_Succeeded), Op1, JUndef, JUndef),
    Result(TRUE, JStr(S_Failed), Op1, JUndef, JObj),
    Result(TRUE, JUndef, Op1, JUndef, JUndef) }

ProviderResults ==
  { Result(TRUE, JStr(S_Succeeded), Op1, JUndef, JUndef),
    Result(TRUE, JStr(S_succeeded), JUndef, Op2, JNull),
    Result(TRUE, JStr(S_Failed), Op1, JUndef, JObj),
    Result(TRUE, JStr(S_Canceled), JUndef, JUndef, JUndef),
    Result(TRUE, JUndef, Op1, JUndef, JUndef),
    Result(TRUE, JStr(<<>>), Op1, Op2, JObj) }

\* result?.<name>
ResultProp(result, name) == IF result.defined THEN result[name] ELSE JUndef

\* a property the response body does not have
Absent == "(absent)"

NoResp ==
  [status |-> 0, error |-> Absent, message |-> Absent, details |-> <<>>,
   pstatus |-> JUndef, operationId |-> JUndef, pdetails |-> JUndef]

ValidationError(details) ==
  [NoResp EXCEPT !.status = 400, !.error = "ValidationError", !.details = details]

EmailSendFailed(pstatus, operationId, pdetails) ==
  [NoResp EXCEPT !.status = 500, !.error = "EmailSendFailed", !.pstatus = pstatus,
                 !.operationId = operationId, !.pdetails = pdetails]

Accepted(pstatus, operationId) ==
  [NoResp EXCEPT !.status = 202, !.message = "accepted", !.pstatus = pstatus,
                 !.operationId = operationId]

InternalServerError(message) ==
  [NoResp EXCEPT !.status = 500, !.error = "InternalServerError", !.message = message]

(***************************************************************************)
(* State.                                                                  *)
(***************************************************************************)
VARIABLES
  env,        \* process.env: the two configuration values
  inv,        \* the invocations of productUpdatedHttp
  hClients,   \* EmailClient objects constructed by productUpdatedHttp
  client,     \* the gateway's cached client (0 is null)
  gwClients,  \* EmailClient objects constructed by the gateway
  call        \* the calls of the gateway's sendEmail

vars == <<env, inv, hClients, client, gwClients, call>>

Invocations == 1..NumInvocations

Calls == 1..NumCalls

NoRequest == Request(FALSE, "other", [n \in FieldNames |-> JUndef])

IdleInv ==
  [pc |-> "idle", req |-> NoRequest, acsConn |-> Unset, emailFrom |-> Unset,
   checked |-> FALSE, payload |-> NoPayload, errors |-> <<>>,
   madeClient |-> FALSE, sends |-> 0, began |-> "no", polled |-> "no",
   message |-> NoMsg, result |-> NoResult, exc |-> NoExc,
   resp |-> NoResp, responses |-> 0, propagated |-> FALSE]

IdleCall ==
  [pc |-> "idle", handle |-> 0, made |-> FALSE, sends |-> 0, began |-> "no",
   polled |-> "no",
   exc |-> NoExc, outcome |-> "pending"]

(***************************************************************************)
(* productUpdatedHttp, one operator per stretch of code between awaits.    *)
(***************************************************************************)
\* return <response>
Respond(r, resp) ==
  [r EXCEPT !.pc = "done", !.resp = resp, !.responses = @ + 1]

CatchRethrow(r, exc) ==
  [r EXCEPT !.pc = "done", !.exc = exc, !.propagated = TRUE]

\* catch (err) { ... return 500 }
Catch(r, exc) ==
  Respond([r EXCEPT !.exc = exc],
          InternalServerError(IF exc.message = NoMessage THEN "Unknown error"
                              ELSE exc.message))

EnterConfigLater(r, e, req) ==
  [r EXCEPT !.req = req, !.pc = "json",
            !.acsConn = e["ACS_CONNECTION_STRING"], !.emailFrom = e["EMAIL_FROM"]]

\* entry up to the await of request.json()
Enter(r, e, req) ==
  LET acsConn == mustGetEnv(e, "ACS_CONNECTION_STRING")
      emailFrom == mustGetEnv(e, "EMAIL_FROM")
      r1 == [r EXCEPT !.req = req]
  IN  IF ~acsConn.ok THEN Catch(r1, acsConn.exc)
      ELSE IF ~emailFrom.ok THEN Catch(r1, emailFrom.exc)
      ELSE [r1 EXCEPT !.pc = "json", !.acsConn = acsConn.v, !.emailFrom = emailFrom.v]

AfterJsonClientFirst(r) ==
  IF ~r.req.parses THEN Respond(r, ValidationError(<<E_Json>>))
  ELSE
    LET payload == Coerce(r.req)
        errors == Validate(payload)
        r1 == [r EXCEPT !.checked = TRUE, !.payload = payload, !.errors = errors]
    IN  IF ConstructorThrows(r.acsConn) THEN Catch(r1, ConstructorException)
        ELSE IF errors # <<>>
          THEN Respond([r1 EXCEPT !.madeClient = TRUE], ValidationError(errors))
        ELSE [r1 EXCEPT !.madeClient = TRUE,
                        !.message = Message(r.emailFrom, payload),
                        !.sends = @ + 1, !.pc = "beginSend"]

\* from the settled request.json() up to the await of beginSend
AfterJson(r) ==
  IF ~r.req.parses THEN Respond(r, ValidationError(<<E_Json>>))
  ELSE
    LET payload == Coerce(r.req)
        errors == Validate(payload)
        r1 == [r EXCEPT !.checked = TRUE, !.payload = payload, !.errors = errors]
    IN  IF errors # <<>> THEN Respond(r1, ValidationError(errors))
        ELSE IF ConstructorThrows(r.acsConn) THEN Catch(r1, ConstructorException)
        ELSE [r1 EXCEPT !.madeClient = TRUE,
                        !.message = Message(r.emailFrom, payload),
                        !.sends = @ + 1, !.pc = "beginSend"]

AfterPollAlwaysAccepted(r, result) ==
  Respond([r EXCEPT !.polled = "returned", !.result = result],
          Accepted(Nullish(ResultProp(result, "status"), JNull),
                   Nullish(Nullish(ResultProp(result, "id"),
                                   ResultProp(result, "operationId")), JNull)))

\* from the result of pollUntilDone to the response
AfterPoll(r, result) ==
  LET status == ToLowerCase(ToJsString(Nullish(ResultProp(result, "status"), JStr(<<>>))))
      operationId ==
        Nullish(Nullish(ResultProp(result, "id"), ResultProp(result, "operationId")),
                JNull)
      error == Nullish(ResultProp(result, "error"), JNull)
      r1 == [r EXCEPT !.polled = "returned", !.result = result]
  IN  IF status # <<>> /\ status # S_succeeded
      THEN Respond(r1, EmailSendFailed(Nullish(ResultProp(result, "status"), JNull),
                                       operationId, Nullish(error, JNull)))
      ELSE Respond(r1, Accepted(Nullish(ResultProp(result, "status"), JNull),
                                operationId))

(***************************************************************************)
(* The Email Gateway (acs-email.ts).                                       *)
(***************************************************************************)
getClientUncached(cached, e, serial) ==
  LET conn == mustGetEnv(e, "ACS_CONNECTION_STRING") IN
    IF ~conn.ok THEN [ok |-> FALSE, client |-> cached, made |-> FALSE, exc |-> conn.exc]
    ELSE IF ConstructorThrows(conn.v)
      THEN [ok |-> FALSE, client |-> cached, made |-> FALSE, exc |-> ConstructorException]
    ELSE [ok |-> TRUE, client |-> serial + 1, made |-> TRUE, exc |-> NoExc]

\* getClient(): the cached client, or a new one (numbered serial + 1) that is cached
getClient(cached, e, serial) ==
  IF cached # 0 THEN [ok |-> TRUE, client |-> cached, made |-> FALSE, exc |-> NoExc]
  ELSE
    LET conn == mustGetEnv(e, "ACS_CONNECTION_STRING") IN
      IF ~conn.ok THEN [ok |-> FALSE, client |-> cached, made |-> FALSE, exc |-> conn.exc]
      ELSE IF ConstructorThrows(conn.v)
        THEN [ok |-> FALSE, client |-> cached, made |-> FALSE, exc |-> ConstructorException]
      ELSE [ok |-> TRUE, client |-> serial + 1, made |-> TRUE, exc |-> NoExc]

\* sendEmail rejects: the exception goes to the caller
GwReject(c, exc) == [c EXCEPT !.pc = "done", !.exc = exc, !.outcome = "rejected"]

\* sendEmail from its entry up to the await of beginSend
GwEnter(c) ==
  /\ call[c].pc = "idle"
  /\ LET from == mustGetEnv(env, "EMAIL_FROM")
         got == getClient(client, env, gwClients)
     IN  IF ~from.ok
         THEN /\ call' = [call EXCEPT ![c] = GwReject(@, from.exc)]
              /\ UNCHANGED <<client, gwClients>>
         ELSE /\ client' = got.client
              /\ gwClients' = IF got.made THEN gwClients + 1 ELSE gwClients
              /\ call' = [call EXCEPT ![c] =
                            IF got.ok
                            THEN [@ EXCEPT !.pc = "beginSend", !.handle = got.client,
                                           !.made = got.made, !.sends = @ + 1]
                            ELSE GwReject(@, got.exc)]
  /\ UNCHANGED <<env, inv, hClients>>

GwBeginSendReturns(c) ==
  /\ call[c].pc = "beginSend"
  /\ call' = [call EXCEPT ![c].pc = "poll", ![c].began = "returned"]
  /\ UNCHANGED <<env, inv, hClients, client, gwClients>>

GwBeginSendThrows(c) ==
  /\ call[c].pc = "beginSend"
  /\ \E exc \in ProviderExceptions :
       call' = [call EXCEPT ![c] = GwReject([@ EXCEPT !.began = "threw"], exc)]
  /\ UNCHANGED <<env, inv, hClients, client, gwClients>>

GwPollReturns(c) ==
  /\ call[c].pc = "poll"
  /\ call' = [call EXCEPT ![c].pc = "done", ![c].polled = "returned",
                           ![c].outcome = "resolved"]
  /\ UNCHANGED <<env, inv, hClients, client, gwClients>>

GwPollThrows(c) ==
  /\ call[c].pc = "poll"
  /\ \E exc \in ProviderExceptions :
       call' = [call EXCEPT ![c] = GwReject([@ EXCEPT !.polled = "threw"], exc)]
  /\ UNCHANGED <<env, inv, hClients, client, gwClients>>

(***************************************************************************)
(* The steps of productUpdatedHttp.                                        *)
(***************************************************************************)
\* a request arrives and the handler runs up to its first await
Start(i, bodies) ==
  /\ inv[i].pc = "idle"
  /\ \E req \in bodies : inv' = [inv EXCEPT ![i] = Enter(@, env, req)]
  /\ UNCHANGED <<env, hClients, client, gwClients, call>>

\* request.json() settles; validation, and the client and message are made
JsonSettles(i) ==
  /\ inv[i].pc = "json"
  /\ inv' = [inv EXCEPT ![i] = AfterJson(@)]
  /\ hClients' = IF inv'[i].madeClient THEN hClients + 1 ELSE hClients
  /\ UNCHANGED <<env, client, gwClients, call>>

BeginSendReturns(i) ==
  /\ inv[i].pc = "beginSend"
  /\ inv' = [inv EXCEPT ![i].began = "returned", ![i].pc = "poll"]
  /\ UNCHANGED <<env, hClients, client, gwClients, call>>

BeginSendThrowsRetry(i) ==
  /\ inv[i].pc = "beginSend"
  /\ \E exc \in ProviderExceptions :
       inv' = [inv EXCEPT ![i] =
                 IF @.sends < 2 THEN [@ EXCEPT !.sends = @ + 1]
                 ELSE Catch([@ EXCEPT !.began = "threw"], exc)]
  /\ UNCHANGED <<env, hClients, client, gwClients, call>>

BeginSendThrows(i) ==
  /\ inv[i].pc = "beginSend"
  /\ \E exc \in ProviderExceptions :
       inv' = [inv EXCEPT ![i] = Catch([@ EXCEPT !.began = "threw"], exc)]
  /\ UNCHANGED <<env, hClients, client, gwClients, call>>

PollReturns(i, results) ==
  /\ inv[i].pc = "poll"
  /\ \E result \in results : inv' = [inv EXCEPT ![i] = AfterPoll(@, result)]
  /\ UNCHANGED <<env, hClients, client, gwClients, call>>

PollThrows(i) ==
  /\ inv[i].pc = "poll"
  /\ \E exc \in ProviderExceptions :
       inv' = [inv EXCEPT ![i] = Catch([@ EXCEPT !.polled = "threw"], exc)]
  /\ UNCHANGED <<env, hClients, client, gwClients, call>>

\* the host changes a configuration value between two steps of the process
SetEnv ==
  /\ \E name \in EnvNames : \E v \in EnvValues(name) :
       /\ v # env[name]
       /\ env' = [env EXCEPT ![name] = v]
  /\ UNCHANGED <<inv, hClients, client, gwClients, call>>

(***************************************************************************)
(* The request bodies the specifications draw from.                        *)
(***************************************************************************)
A_at_B == <<"a", "@", "b">>

ValidFields ==
  [id |-> JStr(<<"d", "1">>), name |-> JStr(<<"W">>),
   pricePence |-> JNum(Num(FALSE, 5, <<>>)), description |-> JUndef,
   updatedAt |-> JStr(IsoDate), recipientEmail |-> JStr(A_at_B)]

Object(f) == Request(TRUE, "object", f)

\* a few bodies, for the specifications with several processes
CoreBodies ==
  { Object(ValidFields),
    Object([ValidFields EXCEPT !.id = JUndef, !.pricePence = JNum(Num(TRUE, 1, <<>>))]),
    Request(FALSE, "other", ValidFields) }

\* every combination of passing and failing checks
ComboBodies ==
  { Object([id |-> id, name |-> name, pricePence |-> price, description |-> JUndef,
            updatedAt |-> date, recipientEmail |-> email]) :
      id \in {ValidFields.id, JStr(<<" ">>)},
      name \in {ValidFields.name, JNull},
      price \in {ValidFields.pricePence, JNum(Num(TRUE, 1, <<>>))},
      email \in {ValidFields.recipientEmail, JStr(<<"a", "b">>)},
      date \in {ValidFields.updatedAt, JStr(DateOnly)} }

JsonValues ==
  { JUndef, JNull, JObj, JBool(TRUE), JBool(FALSE),
    JStr(<<>>), JStr(<<" ">>), JStr(<<" ", "d", " ">>), JStr(A_at_B), JStr(<<"@">>),
    JNum(Num(FALSE, 0, <<>>)), JNum(Num(FALSE, 5, <<>>)), JNum(Num(TRUE, 1, <<"5">>)),
    JArr(<<>>), JArr(<<A_at_B>>), JArr(<<<<"1">>, <<"2">>>>), JArr(<<<<" ">>>>) }

PriceValues ==
  { JUndef, JNull, JObj, JBool(TRUE), JBool(FALSE),
    JNum(Num(FALSE, 0, <<>>)), JNum(Num(TRUE, 0, <<>>)), JNum(Num(FALSE, 12, <<>>)),
    JNum(Num(TRUE, 1, <<>>)), JNum(Num(FALSE, 1, <<"5">>)),
    JStr(<<>>), JStr(<<" ">>), JStr(<<"5">>), JStr(<<" ", "5", " ">>),
    JStr(<<"-", "5">>), JStr(<<"+", "5">>), JStr(<<"-", "0">>),
    JStr(<<"1", ".", "5">>), JStr(<<"5", ".", "0">>), JStr(<<"5", ".">>),
    JStr(<<".", "5">>), JStr(<<"1", ".", "2", ".", "3">>), JStr(<<"a", "b", "c">>),
    JStr(<<"-">>), JStr(<<".">>),
    JArr(<<>>), JArr(<<<<"5">>>>), JArr(<<<<"1">>, <<"2">>>>) }

DateValues ==
  { JUndef, JNull, JObj, JBool(TRUE), JNum(Num(FALSE, 5, <<>>)),
    JStr(<<>>), JStr(<<"T">>), JStr(DateOnly), JStr(IsoDate),
    JArr(<<>>), JArr(<<IsoDate>>) }

ValuesOf(name) ==
  IF name = "pricePence" THEN PriceValues
  ELSE IF name = "updatedAt" THEN DateValues
  ELSE JsonValues

\* a valid body with one field replaced
OneFieldBodies ==
  { Object([ValidFields EXCEPT ![nv[1]] = nv[2]]) :
      nv \in UNION {{<<n, v>> : v \in ValuesOf(n)} : n \in FieldNames} }

AllBodies ==
  ComboBodies \cup OneFieldBodies
  \cup { Request(FALSE, "other", ValidFields),
         Request(FALSE, "other", [ValidFields EXCEPT !.id = JUndef]),
         Request(TRUE, "null", ValidFields),
         Request(TRUE, "other", ValidFields) }

EscChars == {"&", "<", ">", "\"", "'", "a", ";"}

EscStrings == UNION {[1..k -> EscChars] : k \in 0..MaxLen}

\* a valid body whose id, name or description is any string of EscStrings
EscapeBodies ==
  { Object([ValidFields EXCEPT ![name] = JStr(s)]) :
      name \in {"id", "name", "description"}, s \in EscStrings }
  \cup {Object(ValidFields)}

(***************************************************************************)
(* Specifications.                                                         *)
(***************************************************************************)
EnvSpace ==
  { [ACS_CONNECTION_STRING |-> a, EMAIL_FROM |-> f] :
      a \in EnvValues("ACS_CONNECTION_STRING"), f \in EnvValues("EMAIL_FROM") }

Init ==
  /\ env \in EnvSpace
  /\ inv = [i \in Invocations |-> IdleInv]
  /\ hClients = 0
  /\ client = 0
  /\ gwClients = 0
  /\ call = [c \in Calls |-> IdleCall]

HandlerStep(i, bodies, results) ==
  \/ Start(i, bodies)
  \/ JsonSettles(i)
  \/ BeginSendReturns(i)
  \/ BeginSendThrows(i)
  \/ PollReturns(i, results)
  \/ PollThrows(i)

GatewayStep(c) ==
  \/ GwEnter(c)
  \/ GwBeginSendReturns(c)
  \/ GwBeginSendThrows(c)
  \/ GwPollReturns(c)
  \/ GwPollThrows(c)

\* the whole process, handler and callers of the gateway, under the
\* configuration it was started with
Next ==
  \/ \E i \in 1..NumBoth : HandlerStep(i, CoreBodies, CoreResults)
  \/ \E c \in 1..NumBoth : GatewayStep(c)

Spec == Init /\ [][Next]_vars

\* concurrent invocations of the handler
NextHandler ==
  \/ \E i \in Invocations : HandlerStep(i, CoreBodies, CoreResults)
  \/ SetEnv

SpecHandler == Init /\ [][NextHandler]_vars

\* one invocation of the handler, over all request bodies
NextBody ==
  \/ HandlerStep(1, AllBodies, ProviderResults)
  \/ SetEnv

SpecBody == Init /\ [][NextBody]_vars

\* concurrent calls of the gateway
NextGateway ==
  \/ \E c \in Calls : GatewayStep(c)
  \/ SetEnv

SpecGateway == Init /\ [][NextGateway]_vars

\* one invocation up to the message it hands to beginSend, configuration present
InitEscape ==
  /\ Init
  /\ env = [ACS_CONNECTION_STRING |-> ValidConn, EMAIL_FROM |-> Sender]

NextEscape ==
  \/ Start(1, EscapeBodies)
  \/ JsonSettles(1)

SpecEscape == InitEscape /\ [][NextEscape]_vars

(***************************************************************************)
(* Properties.                                                             *)
(***************************************************************************)
Range(q) == {q[k] : k \in 1..Len(q)}

\* the invocation read both configuration values and went on to the body
Configured(r) == r.acsConn # Unset /\ r.emailFrom # Unset

CheckOrder == <<E_Id, E_Name, E_Price, E_Email, E_Date>>

\* the messages of the checks a coerced payload fails
FailedChecks(p) ==
  {m \in Range(CheckOrder) :
     \/ m = E_Id /\ Trim(p.id) = <<>>
     \/ m = E_Name /\ Trim(p.name) = <<>>
     \/ m = E_Price /\ ~isNonNegativeInt(p.pricePence)
     \/ m = E_Email /\ ~Includes(p.recipientEmail, "@")
     \/ m = E_Date /\ ~isIsoDateString(JStr(p.updatedAt))}

IsFailed(p, m) == m \in FailedChecks(p)

\* one message per failed check, in the order of the checks
ExpectedDetails(p) == SelectSeq(CheckOrder, LAMBDA m : IsFailed(p, m))

\* C1: with both configuration values present, a finished invocation answers
\* 400 ValidationError exactly when the body does not parse (details is the one
\* message 'Body must be valid JSON') or at least one of the five checks fails
\* (details is one message per failed check, none for a passed one, in the
\* order id, name, pricePence, recipientEmail, updatedAt); a parsed body that
\* passes all five checks never gets a 400.
C1_ValidationResponse ==
  \A i \in Invocations :
    LET r == inv[i]
        p == Coerce(r.req)
    IN  (r.pc = "done" /\ Configured(r)) =>
          /\ ~r.req.parses => r.resp = ValidationError(<<E_Json>>)
          /\ (r.req.parses /\ FailedChecks(p) # {}) =>
               r.resp = ValidationError(ExpectedDetails(p))
          /\ (r.req.parses /\ FailedChecks(p) = {}) => r.resp.status # 400

\* a 400 that reports two failed checks which are not neighbours in the order
C1_Witness ==
  \E i \in Invocations :
    /\ inv[i].pc = "done"
    /\ inv[i].resp.status = 400
    /\ inv[i].resp.details = <<E_Name, E_Email>>

\* the provider's terminal status is the success status
IsSuccess(result) ==
  /\ result.defined
  /\ result.status.t = "string"
  /\ ToLowerCase(result.status.s) = S_succeeded

\* the result carries no status: the property is absent, null or empty
HasNoStatus(result) ==
  ResultProp(result, "status") \in {JUndef, JNull, JStr(<<>>)}

\* the provider's values as the response echoes them (null for an absent one)
EchoStatus(result) == Nullish(ResultProp(result, "status"), JNull)

EchoOperationId(result) ==
  IF ResultProp(result, "id").t \notin {"undefined", "null"}
  THEN ResultProp(result, "id")
  ELSE IF ResultProp(result, "operationId").t \notin {"undefined", "null"}
  THEN ResultProp(result, "operationId")
  ELSE JNull

EchoError(result) == Nullish(ResultProp(result, "error"), JNull)

\* C2 as stated: once pollUntilDone has returned, the response is 202
\* {message: 'accepted', status, operationId} only when the provider's terminal
\* status is the success status, and 500 {error: 'EmailSendFailed', status,
\* operationId, details} for every other result (any other status, or no
\* status at all), with the provider's values echoed.
C2_Original ==
  \A i \in Invocations :
    LET r == inv[i] IN
      (r.pc = "done" /\ r.polled = "returned") =>
        IF IsSuccess(r.result)
        THEN r.resp = Accepted(EchoStatus(r.result), EchoOperationId(r.result))
        ELSE r.resp = EmailSendFailed(EchoStatus(r.result), EchoOperationId(r.result),
                                      EchoError(r.result))

\* C2 amended: once pollUntilDone has returned, the response is 202 {message:
\* 'accepted', status, operationId} when the provider's status is the success
\* status (in any letter case) or the result carries no status (absent, null
\* or empty), and 500 {error: 'EmailSendFailed', status, operationId, details}
\* for every result with any other status; the provider's values are echoed,
\* an absent one as null.
C2_ResponseMapping ==
  \A i \in Invocations :
    LET r == inv[i] IN
      (r.pc = "done" /\ r.polled = "returned") =>
        IF IsSuccess(r.result) \/ HasNoStatus(r.result)
        THEN r.resp = Accepted(EchoStatus(r.result), EchoOperationId(r.result))
        ELSE r.resp = EmailSendFailed(EchoStatus(r.result), EchoOperationId(r.result),
                                      EchoError(r.result))

\* a result without status was answered 202 with its operation id echoed
C2_Witness ==
  \E i \in Invocations :
    /\ inv[i].pc = "done"
    /\ inv[i].polled = "returned"
    /\ inv[i].result.status = JUndef
    /\ inv[i].resp.status = 202
    /\ inv[i].resp.operationId = Op1

\* the send attempt of an invocation comes after a parsed body passed all checks,
\* and a 400 comes without any send attempt
SendOnlyAfterValidation(r) ==
  /\ (r.madeClient \/ r.sends > 0) =>
       /\ r.req.parses
       /\ r.checked
       /\ FailedChecks(Coerce(r.req)) = {}
  /\ r.resp.status = 400 => (~r.madeClient /\ r.sends = 0)

\* C3 as stated: a send attempt (client construction, beginSend) happens only
\* after the body parsed and all five checks passed, a 400 comes without a send
\* attempt, and the response of an invocation that called beginSend is produced
\* only after pollUntilDone has returned or thrown.
C3_Original ==
  \A i \in Invocations :
    LET r == inv[i] IN
      /\ SendOnlyAfterValidation(r)
      /\ (r.sends > 0 /\ r.responses > 0) => r.polled \in {"returned", "threw"}

\* C3 amended: as above, but the response of an invocation that called
\* beginSend is produced only after pollUntilDone has returned or thrown, or
\* after beginSend itself has thrown (then pollUntilDone is never called).
C3_SendAfterValidation ==
  \A i \in Invocations :
    LET r == inv[i] IN
      /\ SendOnlyAfterValidation(r)
      /\ (r.sends > 0 /\ r.responses > 0) =>
           \/ r.polled \in {"returned", "threw"}
           \/ r.began = "threw" /\ r.polled = "no"
      /\ r.polled # "no" => r.began = "returned"

\* an invocation that sent and answered after pollUntilDone returned
C3_Witness ==
  \E i \in Invocations :
    /\ inv[i].pc = "done"
    /\ inv[i].sends = 1
    /\ inv[i].polled = "returned"
    /\ inv[i].resp.status = 202

\* C4: an invocation never ends by a propagated exception; when it ends it has
\* returned exactly one response, of status 400, 202 or 500; and an exception
\* thrown by the configuration lookup, the client construction, beginSend or
\* pollUntilDone has become 500 {error: 'InternalServerError', message} with the
\* exception's message, or 'Unknown error' when it has none.
C4_NoEscape ==
  \A i \in Invocations :
    LET r == inv[i] IN
      /\ ~r.propagated
      /\ r.pc = "done" => (r.responses = 1 /\ r.resp.status \in {400, 202, 500})
      /\ r.pc # "done" => (r.responses = 0 /\ r.resp = NoResp)
      /\ r.exc.thrown =>
           /\ r.pc = "done"
           /\ r.resp.status = 500
           /\ r.resp.error = "InternalServerError"
           /\ r.resp.message =
                (IF r.exc.message = NoMessage THEN "Unknown error" ELSE r.exc.message)

\* pollUntilDone threw a value without message, answered as 'Unknown error'
C4_Witness ==
  \E i \in Invocations :
    /\ inv[i].pc = "done"
    /\ inv[i].polled = "threw"
    /\ inv[i].exc = Exc(NoMessage)
    /\ inv[i].resp.message = "Unknown error"

\* the entity of a reserved character, any other character itself
Entity(c) ==
  CASE c = "&" -> <<"&", "a", "m", "p", ";">>
    [] c = "<" -> <<"&", "l", "t", ";">>
    [] c = ">" -> <<"&", "g", "t", ";">>
    [] c = "\"" -> <<"&", "q", "u", "o", "t", ";">>
    [] c = "'" -> <<"&", "#", "3", "9", ";">>
    [] OTHER -> <<c>>

\* s with each character replaced by its entity, in one pass
RECURSIVE Escaped(_)
Escaped(s) == IF s = <<>> THEN <<>> ELSE Entity(Head(s)) \o Escaped(Tail(s))

\* at position k of h one of the five entities begins
EntityAt(h, k) ==
  \E c \in {"&", "<", ">", "\"", "'"} :
    /\ k + Len(Entity(c)) - 1 <= Len(h)
    /\ SubSeq(h, k, k + Len(Entity(c)) - 1) = Entity(c)

\* C5: the HTML body handed to beginSend is the template with id, name,
\* description (or '-') and updatedAt each replaced character by character by
\* its entities (& < > " ' become &amp; &lt; &gt; &quot; &#39;, every other
\* character stays); so no raw < > " ' of a field is in it and every & in it
\* begins one of the five entities (nothing is escaped twice).
C5_HtmlEscaped ==
  \A i \in Invocations :
    LET r == inv[i]
        f == r.req.f
        h == r.message.html
    IN  r.pc = "beginSend" =>
          /\ h = HtmlOf(Escaped(f.id.s), Escaped(f.name.s),
                        Escaped(IF f.description.t = "string" THEN f.description.s
                                ELSE <<"-">>),
                        Escaped(f.updatedAt.s))
          /\ \A k \in 1..Len(h) :
               /\ h[k] \notin {"<", ">", "\"", "'"}
               /\ h[k] = "&" => EntityAt(h, k)

\* a name with an ampersand next to other reserved characters went into a message
C5_Witness ==
  \E i \in Invocations :
    /\ inv[i].pc = "beginSend"
    /\ inv[i].req.f.name.s = <<"<", "&", "'">>
    /\ Len(inv[i].message.html) > 10

\* C6: over any interleaving of sendEmail calls, at most one client is ever
\* constructed, by one call; the cache is set exactly when a client has been
\* constructed and is never reset or replaced (every call that sent used the
\* handle that is cached now); a call that failed at entry constructed nothing.
C6_OneCachedClient ==
  /\ gwClients <= 1
  /\ gwClients = Cardinality({c \in Calls : call[c].made})
  /\ client = (IF gwClients = 0 THEN 0 ELSE 1)
  /\ \A c \in Calls :
       /\ call[c].sends > 0 => (client # 0 /\ call[c].handle = client)
       /\ (call[c].outcome = "rejected" /\ call[c].sends = 0) =>
            (~call[c].made /\ call[c].handle = 0)

\* two calls in flight at once on the one client, which one of them constructed
C6_Witness ==
  \E c, d \in Calls :
    /\ c # d
    /\ call[c].pc = "poll" /\ call[c].made
    /\ call[d].pc = "beginSend" /\ ~call[d].made
    /\ call[d].handle = call[c].handle
    /\ gwClients = 1

\* C7: over any sequence of productUpdatedHttp invocations that reach the send
\* step, at most one email client is constructed (no invocation constructs a
\* client of its own).
C7_HandlerOneClient == hClients <= 1

StringFields == {"id", "name", "updatedAt", "recipientEmail"}

ErrorOf(name) ==
  CASE name = "id" -> E_Id
    [] name = "name" -> E_Name
    [] name = "updatedAt" -> E_Date
    [] name = "recipientEmail" -> E_Email

\* C9 as stated: a field among id, name, updatedAt and recipientEmail that is
\* missing or not a JSON string is coerced to the empty string and fails its
\* check.
C9_Original ==
  \A i \in Invocations :
    LET r == inv[i] IN
      r.checked =>
        \A name \in StringFields :
          Field(r.req, name).t # "string" =>
            /\ r.payload[name] = <<>>
            /\ ErrorOf(name) \in Range(r.errors)

\* C9 amended: a missing or null field becomes the empty string and fails its
\* check; a number, boolean or object becomes its String() text (5 -> '5',
\* true -> 'true', {} -> '[object Object]'), which is never blank, so it passes
\* the id and name checks and fails the recipientEmail and updatedAt checks; an
\* array becomes its elements joined by commas.
C9_Coercion ==
  \A i \in Invocations :
    LET r == inv[i] IN
      r.checked =>
        \A name \in StringFields :
          LET x == Field(r.req, name)
              failed == ErrorOf(name) \in Range(r.errors)
          IN  /\ x.t \in {"undefined", "null"} => (r.payload[name] = <<>> /\ failed)
              /\ x.t \in {"number", "boolean", "object"} =>
                   /\ Trim(r.payload[name]) # <<>>
                   /\ failed <=> name \in {"recipientEmail", "updatedAt"}
              /\ x = JNum(Num(FALSE, 5, <<>>)) => r.payload[name] = <<"5">>
              /\ x = JBool(TRUE) => r.payload[name] = <<"t", "r", "u", "e">>
              /\ x.t = "array" => r.payload[name] = Join(x.a)

\* a body whose id is a number was accepted and sent
C9_Witness ==
  \E i \in Invocations :
    /\ inv[i].pc = "done"
    /\ inv[i].req.f.id.t = "number"
    /\ inv[i].resp.status = 202

\* the value denotes a non-negative integer: such a JSON number, or a string
\* whose numeric parse is one (the empty string denotes no number)
DenotesNonNegativeInt(x) ==
  \/ x.t = "number" /\ NumberIsInteger(x.n) /\ NumberGeqZero(x.n)
  \/ /\ x.t = "string"
     /\ Trim(x.s) # <<>>
     /\ NumberIsInteger(StringToNumber(x.s))
     /\ NumberGeqZero(StringToNumber(x.s))

\* C10: the pricePence check passes only when the field denotes a non-negative
\* integer; for every other value (absent, null, boolean, empty string, array,
\* non-numeric string, negative or fractional number) the response is 400, its
\* details contain 'pricePence must be a non-negative integer', and nothing is
\* sent.
C10_PriceRejected ==
  \A i \in Invocations :
    LET r == inv[i] IN
      (r.checked /\ ~DenotesNonNegativeInt(Field(r.req, "pricePence"))) =>
        /\ r.resp.status = 400
        /\ E_Price \in Range(r.resp.details)
        /\ ~r.madeClient
        /\ r.sends = 0

\* the configuration value is absent: not set, or set to the empty string
IsAbsent(name) == env[name] \in {Unset, ""}

\* the variable the lookup misses first, in the order the handler reads them
FirstAbsent ==
  IF IsAbsent("ACS_CONNECTION_STRING") THEN "ACS_CONNECTION_STRING" ELSE "EMAIL_FROM"

\* invocation i starts in this step
Starts(i) == inv[i].pc = "idle" /\ inv'[i].pc # "idle"

\* C11: the handler reads both configuration values when an invocation starts,
\* before the body is parsed.  If one is absent the invocation ends at once
\* with 500 {error: 'InternalServerError', message: '<name> is not set'} naming
\* the absent variable, whatever the body (unparseable and invalid ones too: no
\* 400), without constructing a client or sending; the other invocations and
\* the later ones are untouched, and an invocation that starts with both values
\* present goes on to parse its body.
C11_ConfigurationFirst ==
  [][\A i \in Invocations :
       Starts(i) =>
         IF IsAbsent("ACS_CONNECTION_STRING") \/ IsAbsent("EMAIL_FROM")
         THEN /\ inv'[i].pc = "done"
              /\ inv'[i].resp = InternalServerError(FirstAbsent \o " is not set")
              /\ inv'[i].responses = 1
              /\ ~inv'[i].propagated
              /\ ~inv'[i].checked
              /\ ~inv'[i].madeClient
              /\ inv'[i].sends = 0
              /\ hClients' = hClients
              /\ \A j \in Invocations \ {i} : inv'[j] = inv[j]
         ELSE /\ inv'[i].pc = "json"
              /\ inv'[i].responses = 0
              /\ Configured(inv'[i])]_vars

\* an unparseable request met a missing sender address and got the 500, and
\* another invocation of the same process was accepted
C11_Witness ==
  \E i, j \in Invocations :
    /\ i # j
    /\ inv[i].pc = "done"
    /\ ~inv[i].req.parses
    /\ inv[i].resp = InternalServerError("EMAIL_FROM is not set")
    /\ inv[j].pc = "done"
    /\ inv[j].resp.status = 202

====
